---------------------------- MODULE Spec2Model ----------------------------
(***************************************************************************)
(* Fixture extraction scripts of evefrontier-rs (scripts/*.py).            *)
(*                                                                         *)
(*   extract_fixture_from_dataset.py  seed-based extraction (Nod, Brana)   *)
(*   extract_route_fixture.py         corridor analysis and extraction     *)
(*                                                                         *)
(* A store (SQLite file) is a record of tables, a table a set of rows, a   *)
(* row a record of the columns the scripts read.  Primary keys make the    *)
(* rows of a table differ in their id.                                     *)
(***************************************************************************)
EXTENDS Integers, Sequences, FiniteSets, TLC

(***************************************************************************)
(* Bounds of the input space.                                              *)
(***************************************************************************)
MaxJumps == 2
MaxRoutes == 4
MaxPathLen == 2
MaxThreshold == 5
MaxRuns == 2
MaxFileLen == 3
MaxMarkerLines == 2

(***************************************************************************)
(* Program constants.  Coordinates are kept in units of 9.461e14 m, so the *)
(* light-year of extract_fixture_from_dataset.py:17 (9.461e15 m) is 10     *)
(* coordinate units and every distance test stays in integer arithmetic.   *)
(***************************************************************************)
LIGHT_YEAR_METERS == 10
MAX_DISTANCE_LY == 80

SystemIds == {1, 2, 3, 4, 5}
RegionIds == {1, 2}
ConstellationIds == {1, 2}
PlanetIds == {1, 2}
MoonIds == {1, 2}

NameOf(i) ==
  CASE i = 1 -> "Nod"
    [] i = 2 -> "Brana"
    [] i = 3 -> "E1J-M5G"
    [] i = 4 -> "Strym"
    [] OTHER -> "Sahtogas"

(* Brana's place, a place exactly 80 ly from it, one just beyond 80 ly. *)
PosBrana == <<100, 0, 0>>
PosEdge == <<580, 640, 0>>
PosBeyond == <<580, 640, 10>>
Positions == {PosBrana, PosEdge, PosBeyond}

(***************************************************************************)
(* Rows.                                                                   *)
(***************************************************************************)
RegionRow(r) == [regionId |-> r]
ConstellationRow(c, r) == [constellationId |-> c, regionId |-> r]
SystemRow(i, r, c, p, t, l) ==
  [solarSystemId |-> i, name |-> NameOf(i), regionId |-> r, constellationId |-> c,
   pos |-> p, star_temperature |-> t, star_luminosity |-> l]
JumpRow(a, b) == [fromSystemId |-> a, toSystemId |-> b]
PlanetRow(p, s) == [planetId |-> p, solarSystemId |-> s]
MoonRow(m, p) == [moonId |-> m, planetId |-> p]
StationRow(n, s) == [stationId |-> n, solarSystemId |-> s]

(* A store: the file at a path.  exists = FALSE: no file. *)
MkStore(e, rs, cs, ss, js, ps, ms, hasSt, sts) ==
  [exists |-> e, Regions |-> rs, Constellations |-> cs, SolarSystems |-> ss,
   Jumps |-> js, Planets |-> ps, Moons |-> ms,
   hasNpcStations |-> hasSt, NpcStations |-> sts]

NoStore == MkStore(FALSE, {}, {}, {}, {}, {}, {}, FALSE, {})
EmptyStore(hasSt) == MkStore(TRUE, {}, {}, {}, {}, {}, {}, hasSt, {})

(* An earlier fixture left at the output path: its rows are in no source. *)
StaleStore ==
  MkStore(TRUE, {RegionRow(9)}, {ConstellationRow(9, 9)},
          {SystemRow(9, 9, 9, PosBeyond, "NULL", "NULL")},
          {JumpRow(9, 9)}, {PlanetRow(9, 9)}, {MoonRow(9, 9)}, FALSE, {})

VARIABLES
  source,            \* the source dataset (read only)
  starColumns,       \* optional columns the source SolarSystems table has
  disk,              \* the store at the output path, as committed
  preexisting,       \* the store that was at the output path before the run
  script,            \* which script runs: "none", "dataset", "route"
  pc,                \* position in extract_fixture_data
  status,            \* process exit status: "running", 0, 1 as strings
  source_open,       \* source = sqlite3.connect(...) is open
  output_open,       \* output = sqlite3.connect(...) is open
  target_systems,    \* name -> id found by get_target_system_ids, as pairs
  gate_systems,      \* result of get_gate_connected_systems
  nearby_systems,    \* result of get_nearby_systems
  all_systems,       \* the target system-ID set (all_systems / system_id_list)
  region_ids,
  constellation_ids,
  jumps,             \* rows fetched from Jumps (route script fetches early)
  planet_ids,
  txn,               \* rows inserted through the output connection
  corpus,            \* SampleRoutes.csv: the rows of the route corpus
  threshold,         \* --threshold
  next_row,          \* index of the next row csv.DictReader yields
  systems,           \* keys of the systems dict of analyze_sample_routes
  routes,            \* routes list of analyze_sample_routes
  all_system_ids,    \* all_system_ids list of analyze_sample_routes
  corridor_systems,  \* returned corridor
  corridor_routes,   \* returned covered routes
  an_pc,             \* position in analyze_sample_routes
  returned,          \* what analyze_sample_routes returned, per threshold run
  closure_pass,      \* 1: closure of the target set; 2: of the ids it wrote
  fixture_db,        \* the file FIXTURE_DB: whether it exists, its bytes
  release_marker,    \* the file RELEASE_MARKER: whether it exists, its lines
  metadata_file,     \* the file METADATA_FILE: whether it exists, its text
  last,              \* the last fixture_status command: exit status and output
  baseline,          \* the files as they were at the last successful record
  top_systems,       \* analyze_sample_routes.py: the printed most common systems
  core_systems,      \* analyze_sample_routes.py: core_systems
  contained_routes   \* analyze_sample_routes.py: contained_routes

vars == <<source, starColumns, disk, preexisting, script, pc, status, source_open,
          output_open, target_systems, gate_systems, nearby_systems, all_systems,
          region_ids, constellation_ids, jumps, planet_ids, txn,
          corpus, threshold, next_row, systems, routes, all_system_ids,
          corridor_systems, corridor_routes, an_pc, returned, closure_pass,
          fixture_db, release_marker, metadata_file, last, baseline,
          top_systems, core_systems, contained_routes>>

(* The state of fixture_status.py. *)
fixture_state == <<fixture_db, release_marker, metadata_file, last, baseline>>

analysis == <<corpus, threshold, next_row, systems, routes, all_system_ids,
              corridor_systems, corridor_routes, an_pc, returned, fixture_state,
              top_systems, core_systems, contained_routes>>

extraction == <<source, starColumns, disk, preexisting, script, pc, status, source_open,
                output_open, target_systems, gate_systems, nearby_systems, all_systems,
                region_ids, constellation_ids, jumps, planet_ids, txn, closure_pass>>

(* What the analyzer leaves alone, apart from the exit status. *)
analyzer_frame == <<source, starColumns, disk, preexisting, script, pc, source_open,
                      output_open, target_systems, gate_systems, nearby_systems,
                      all_systems, region_ids, constellation_ids, jumps, planet_ids,
                      txn, closure_pass, fixture_state>>

locals == <<target_systems, gate_systems, nearby_systems, all_systems,
            region_ids, constellation_ids, jumps, planet_ids>>


(***************************************************************************)
(* Source datasets.  Every source satisfies the foreign keys its schema    *)
(* declares (extract_route_fixture.py:121-204): constellation -> region,   *)
(* system -> region and constellation, jump -> systems, planet -> system,  *)
(* moon -> planet.  The schema does not tie a system's denormalized        *)
(* regionId to the regionId of its constellation.                          *)
(***************************************************************************)
AllRegions == {RegionRow(r) : r \in RegionIds}

DefaultRC(i) == IF i \in {1, 2} THEN <<1, 1>> ELSE <<2, 2>>
DefaultPos(i) == IF i = 2 THEN PosBrana ELSE PosBeyond

DefaultSystems(S) ==
  {SystemRow(i, DefaultRC(i)[1], DefaultRC(i)[2], DefaultPos(i), "temp", "lum") : i \in S}
DefaultConstellations == {ConstellationRow(1, 1), ConstellationRow(2, 2)}
DefaultJumps(S) == {JumpRow(1, 3), JumpRow(4, 5)} \cap {JumpRow(a, b) : a \in S, b \in S}
DefaultPlanets(S) ==
  {PlanetRow(1, 1), PlanetRow(2, 4)} \cap {PlanetRow(p, s) : p \in PlanetIds, s \in S}
DefaultMoons(P) ==
  {MoonRow(1, 1), MoonRow(2, 2)} \cap {MoonRow(m, p.planetId) : m \in MoonIds, p \in P}

DefaultSource ==
  MkStore(TRUE, AllRegions, DefaultConstellations, DefaultSystems(SystemIds),
          DefaultJumps(SystemIds), DefaultPlanets(SystemIds),
          DefaultMoons(DefaultPlanets(SystemIds)), FALSE, {})

GatePairs(S) == {JumpRow(q[1], q[2]) : q \in {t \in S \X S : t[1] # t[2]}}
JumpSets(S) ==
  UNION {{{f[k] : k \in 1..n} : f \in [1..n -> GatePairs(S)]} : n \in 0..MaxJumps}

(* Sources with Nod and Brana that differ in which other systems exist, in
   where system 4 is and in how gates join the systems. *)
GraphSources ==
  UNION {{MkStore(TRUE, AllRegions, DefaultConstellations,
                  {SystemRow(i, DefaultRC(i)[1], DefaultRC(i)[2],
                             IF i = 4 THEN p4 ELSE DefaultPos(i), "temp", "lum") : i \in S},
                  J, DefaultPlanets(S), DefaultMoons(DefaultPlanets(S)), FALSE, {}) :
            <<p4, J>> \in {PosEdge, PosBeyond} \X JumpSets(S)} :
         S \in {T \in SUBSET SystemIds : {1, 2} \subseteq T}}

(* Sources without Nod or without Brana. *)
MissingSeedSources ==
  {MkStore(TRUE, AllRegions, DefaultConstellations, DefaultSystems(S), DefaultJumps(S),
           DefaultPlanets(S), DefaultMoons(DefaultPlanets(S)), FALSE, {}) :
     S \in {T \in SUBSET SystemIds : ~({1, 2} \subseteq T)}}

(* Sources that differ in the region and constellation of systems 3 and 4
   and in the region of each constellation. *)
HierarchySources ==
  {MkStore(TRUE, AllRegions,
           {ConstellationRow(c, cr[c]) : c \in ConstellationIds},
           {SystemRow(i, IF i \in {3, 4} THEN rc[i][1] ELSE DefaultRC(i)[1],
                         IF i \in {3, 4} THEN rc[i][2] ELSE DefaultRC(i)[2],
                      DefaultPos(i), "temp", "lum") : i \in SystemIds},
           DefaultJumps(SystemIds), DefaultPlanets(SystemIds),
           DefaultMoons(DefaultPlanets(SystemIds)), FALSE, {}) :
     <<cr, rc>> \in [ConstellationIds -> RegionIds]
                      \X [{3, 4} -> RegionIds \X ConstellationIds]}

(* Sources that differ in their planets and moons; 0: no such row. *)
BodySources ==
  {MkStore(TRUE, AllRegions, DefaultConstellations, DefaultSystems(SystemIds),
           DefaultJumps(SystemIds),
           {PlanetRow(p, ps[p]) : p \in {q \in PlanetIds : ps[q] # 0}},
           {MoonRow(m, ms[m]) : m \in {q \in MoonIds : ms[q] # 0}},
           FALSE, {}) :
     <<ps, ms>> \in
       {t \in [PlanetIds -> SystemIds \cup {0}] \X [MoonIds -> PlanetIds \cup {0}] :
          \A m \in MoonIds : t[2][m] # 0 => t[1][t[2][m]] # 0}}

(* The default source with and without the optional NpcStations table. *)
StationSources ==
  {[DefaultSource EXCEPT !.hasNpcStations = st,
                         !.NpcStations = IF st THEN {StationRow(1, 1), StationRow(2, 4)}
                                               ELSE {}] : st \in BOOLEAN}

AllStarColumns == {"star_temperature", "star_luminosity"}
StarColumnSets == SUBSET AllStarColumns

(* A source table without an optional column yields no value for it. *)
WithColumns(db, cols) ==
  [db EXCEPT !.SolarSystems =
     {[s EXCEPT !.star_temperature =
                   IF "star_temperature" \in cols THEN @ ELSE "no column",
                !.star_luminosity =
                   IF "star_luminosity" \in cols THEN @ ELSE "no column"] :
        s \in db.SolarSystems}]

(* fixture_status.py has not run and its files are not there. *)
NoFixtureCommand ==
  /\ fixture_db = [exists |-> FALSE, bytes |-> <<>>]
  /\ release_marker = [exists |-> FALSE, lines |-> <<>>]
  /\ metadata_file = [exists |-> FALSE, text |-> <<>>]
  /\ last = [command |-> "none", exit |-> 0, printed |-> <<>>]
  /\ baseline = [recorded |-> FALSE,
                 fixture |-> [exists |-> FALSE, bytes |-> <<>>],
                 marker |-> [exists |-> FALSE, lines |-> <<>>]]

(* The inputs of a run: the source, its optional columns, the file already
   at the output path. *)
Inputs ==
  (GraphSources \X {AllStarColumns} \X {NoStore})
    \cup ((MissingSeedSources \cup HierarchySources \cup BodySources)
            \X {AllStarColumns} \X {NoStore, StaleStore})
    \cup (StationSources \X StarColumnSets \X {NoStore, StaleStore})

Init ==
  /\ \E in \in Inputs :
       /\ source = WithColumns(in[1], in[2])
       /\ starColumns = in[2]
       /\ preexisting = in[3]
  /\ disk = preexisting
  /\ script = "none"
  /\ pc = "idle"
  /\ status = "running"
  /\ source_open = FALSE
  /\ output_open = FALSE
  /\ target_systems = {}
  /\ gate_systems = {}
  /\ nearby_systems = {}
  /\ all_systems = {}
  /\ region_ids = {}
  /\ constellation_ids = {}
  /\ jumps = {}
  /\ planet_ids = {}
  /\ txn = NoStore
  /\ corpus = <<>>
  /\ threshold = 4
  /\ next_row = 1
  /\ systems = {}
  /\ routes = <<>>
  /\ all_system_ids = <<>>
  /\ corridor_systems = {}
  /\ corridor_routes = <<>>
  /\ an_pc = "an_idle"
  /\ returned = {}
  /\ closure_pass = 1
  /\ NoFixtureCommand
  /\ top_systems = <<>>
  /\ core_systems = {}
  /\ contained_routes = <<>>

(***************************************************************************)
(* SQL, as the scripts use it.                                             *)
(***************************************************************************)
(* SELECT * FROM table WHERE col IN (ids) *)
SelectIn(table, col, ids) == {row \in table : row[col] \in ids}

(* SELECT DISTINCT col FROM rows *)
Column(rows, col) == {row[col] : row \in rows}

(***************************************************************************)
(* extract_fixture_from_dataset.py                                         *)
(***************************************************************************)
SeedNames == {"Nod", "Brana", "E1J-M5G"}
RequiredNames == {"Nod", "Brana"}

(* name -> solarSystemId of the seed systems the source has, as pairs *)
get_target_system_ids(db) ==
  {[name |-> s.name, id |-> s.solarSystemId] : s \in SelectIn(db.SolarSystems, "name", SeedNames)}

IdOf(found, n) == (CHOOSE t \in found : t.name = n).id

(* get_gate_connected_systems following gates for two hops. *)
get_gate_connected_systems_TwoHops(db, target_ids) ==
  LET hop(ids) ==
        Column(SelectIn(db.Jumps, "toSystemId", ids), "fromSystemId")
          \cup Column(SelectIn(db.Jumps, "fromSystemId", ids), "toSystemId")
          \cup Column(SelectIn(db.SolarSystems, "solarSystemId", ids), "solarSystemId")
  IN  hop(hop(target_ids))

get_gate_connected_systems(db, target_ids) ==
  Column(SelectIn(db.Jumps, "toSystemId", target_ids), "fromSystemId")
    \cup Column(SelectIn(db.Jumps, "fromSystemId", target_ids), "toSystemId")
    \cup Column(SelectIn(db.SolarSystems, "solarSystemId", target_ids), "solarSystemId")

(* Squared Euclidean distance, in squared coordinate units. *)
DistanceSq(a, b) ==
  (a[1] - b[1]) * (a[1] - b[1]) + (a[2] - b[2]) * (a[2] - b[2])
    + (a[3] - b[3]) * (a[3] - b[3])

(* SQRT(dx^2 + dy^2 + dz^2) / LIGHT_YEAR_METERS <= max_distance_ly *)
WithinLy(a, b, max_distance_ly) ==
  DistanceSq(a, b) <= (max_distance_ly * LIGHT_YEAR_METERS) * (max_distance_ly * LIGHT_YEAR_METERS)

get_nearby_systems(db, brana_id, max_distance_ly) ==
  LET brana == CHOOSE s \in db.SolarSystems : s.solarSystemId = brana_id
  IN  {s.solarSystemId : s \in {r \in db.SolarSystems : WithinLy(r.pos, brana.pos, max_distance_ly)}}

Dataset_Open ==
  /\ pc = "idle"
  /\ script' = "dataset"
  /\ source_open' = TRUE
  /\ pc' = "ds_targets"
  /\ UNCHANGED <<analysis, closure_pass, source, starColumns, disk, preexisting, status, output_open, locals, txn>>

(* Dataset_GetTargets exiting only when both Nod and Brana are missing. *)
Dataset_GetTargets_BothMissing ==
  /\ pc = "ds_targets"
  /\ LET found == get_target_system_ids(source)
     IN  IF RequiredNames \cap Column(found, "name") = {}
         THEN /\ pc' = "failed"
              /\ status' = "1"
              /\ UNCHANGED target_systems
         ELSE /\ pc' = "ds_collect"
              /\ target_systems' = found
              /\ UNCHANGED status
  /\ UNCHANGED <<analysis, closure_pass, source, starColumns, disk, preexisting, script, source_open, output_open,
                 gate_systems, nearby_systems, all_systems, region_ids,
                 constellation_ids, jumps, planet_ids, txn>>

(* get_target_system_ids: exit 1 when Nod or Brana is not in the source *)
Dataset_GetTargets ==
  /\ pc = "ds_targets"
  /\ LET found == get_target_system_ids(source)
     IN  IF ~(RequiredNames \subseteq Column(found, "name"))
         THEN /\ pc' = "failed"
              /\ status' = "1"
              /\ UNCHANGED target_systems
         ELSE /\ pc' = "ds_collect"
              /\ target_systems' = found
              /\ UNCHANGED status
  /\ UNCHANGED <<analysis, closure_pass, source, starColumns, disk, preexisting, script, source_open, output_open,
                 gate_systems, nearby_systems, all_systems, region_ids,
                 constellation_ids, jumps, planet_ids, txn>>

Dataset_Collect ==
  /\ pc = "ds_collect"
  /\ LET brana_id == IdOf(target_systems, "Brana")
         target_ids == Column(target_systems, "id")
         gate == get_gate_connected_systems(source, target_ids)
         nearby == get_nearby_systems(source, brana_id, MAX_DISTANCE_LY)
     IN  /\ gate_systems' = gate
         /\ nearby_systems' = nearby
         /\ all_systems' = gate \cup nearby
  /\ pc' = "ds_create"
  /\ UNCHANGED <<analysis, closure_pass, source, starColumns, disk, preexisting, script, status, source_open,
                 output_open, target_systems, region_ids, constellation_ids, jumps,
                 planet_ids, txn>>

(* The unchanged rest of a copying step. *)
CopyFrame ==
  UNCHANGED <<analysis, closure_pass, source, starColumns, disk, preexisting, script, status, source_open,
              output_open, target_systems, gate_systems, nearby_systems, all_systems,
              region_ids, constellation_ids>>

(* Dataset_CreateOutput reading the parent ids of the seed systems only. *)
Dataset_CreateOutput_SeedParents ==
  /\ pc = "ds_create"
  /\ output_open' = TRUE
  /\ disk' = EmptyStore(source.hasNpcStations)
  /\ txn' = EmptyStore(source.hasNpcStations)
  /\ LET rows == SelectIn(source.SolarSystems, "solarSystemId", Column(target_systems, "id"))
     IN  /\ region_ids' = Column(rows, "regionId")
         /\ constellation_ids' = Column(rows, "constellationId")
  /\ pc' = "ds_regions"
  /\ UNCHANGED <<analysis, closure_pass, source, starColumns, preexisting, script, status, source_open,
                 target_systems, gate_systems, nearby_systems, all_systems, jumps,
                 planet_ids>>

(* Dataset_CreateOutput connecting to the file that is there. *)
Dataset_CreateOutput_KeepsOld ==
  /\ pc = "ds_create"
  /\ output_open' = TRUE
  /\ disk' = IF disk.exists THEN disk ELSE EmptyStore(source.hasNpcStations)
  /\ txn' = disk'
  /\ LET rows == SelectIn(source.SolarSystems, "solarSystemId", all_systems)
     IN  /\ region_ids' = Column(rows, "regionId")
         /\ constellation_ids' = Column(rows, "constellationId")
  /\ pc' = "ds_regions"
  /\ UNCHANGED <<analysis, closure_pass, source, starColumns, preexisting, script, status, source_open,
                 target_systems, gate_systems, nearby_systems, all_systems, jumps,
                 planet_ids>>

(* unlink the old file, connect, copy the source's CREATE TABLE statements,
   read the region and constellation ids of the target systems *)
Dataset_CreateOutput ==
  /\ pc = "ds_create"
  /\ output_open' = TRUE
  /\ disk' = EmptyStore(source.hasNpcStations)
  /\ txn' = EmptyStore(source.hasNpcStations)
  /\ LET rows == SelectIn(source.SolarSystems, "solarSystemId", all_systems)
     IN  /\ region_ids' = Column(rows, "regionId")
         /\ constellation_ids' = Column(rows, "constellationId")
  /\ pc' = "ds_regions"
  /\ UNCHANGED <<analysis, closure_pass, source, starColumns, preexisting, script, status, source_open,
                 target_systems, gate_systems, nearby_systems, all_systems, jumps,
                 planet_ids>>

Dataset_CopyRegions ==
  /\ pc = "ds_regions"
  /\ txn' = [txn EXCEPT !.Regions = @ \cup SelectIn(source.Regions, "regionId", region_ids)]
  /\ pc' = "ds_constellations"
  /\ UNCHANGED <<jumps, planet_ids>>
  /\ CopyFrame

Dataset_CopyConstellations ==
  /\ pc = "ds_constellations"
  /\ txn' = [txn EXCEPT !.Constellations =
               @ \cup SelectIn(source.Constellations, "constellationId", constellation_ids)]
  /\ pc' = "ds_systems"
  /\ UNCHANGED <<jumps, planet_ids>>
  /\ CopyFrame

Dataset_CopySolarSystems ==
  /\ pc = "ds_systems"
  /\ txn' = [txn EXCEPT !.SolarSystems =
               @ \cup SelectIn(source.SolarSystems, "solarSystemId", all_systems)]
  /\ pc' = "ds_jumps"
  /\ UNCHANGED <<jumps, planet_ids>>
  /\ CopyFrame

(* Dataset_CopyJumps with OR for AND in the WHERE clause. *)
Dataset_CopyJumps_EitherEndpoint ==
  /\ pc = "ds_jumps"
  /\ jumps' = SelectIn(source.Jumps, "fromSystemId", all_systems)
                \cup SelectIn(source.Jumps, "toSystemId", all_systems)
  /\ txn' = [txn EXCEPT !.Jumps = @ \cup jumps']
  /\ pc' = "ds_planets"
  /\ UNCHANGED planet_ids
  /\ CopyFrame

Dataset_CopyJumps ==
  /\ pc = "ds_jumps"
  /\ jumps' = SelectIn(SelectIn(source.Jumps, "fromSystemId", all_systems),
                       "toSystemId", all_systems)
  /\ txn' = [txn EXCEPT !.Jumps = @ \cup jumps']
  /\ pc' = "ds_planets"
  /\ UNCHANGED planet_ids
  /\ CopyFrame

Dataset_CopyPlanets ==
  /\ pc = "ds_planets"
  /\ LET planets == SelectIn(source.Planets, "solarSystemId", all_systems)
     IN  /\ planet_ids' = Column(planets, "planetId")
         /\ txn' = [txn EXCEPT !.Planets = @ \cup planets]
  /\ pc' = "ds_moons"
  /\ UNCHANGED jumps
  /\ CopyFrame

(* Dataset_CopyMoons without the planetId filter. *)
Dataset_CopyMoons_AllMoons ==
  /\ pc = "ds_moons"
  /\ IF planet_ids # {}
     THEN txn' = [txn EXCEPT !.Moons = @ \cup source.Moons]
     ELSE UNCHANGED txn
  /\ pc' = "ds_stations"
  /\ UNCHANGED <<jumps, planet_ids>>
  /\ CopyFrame

(* if planet_ids: copy the moons of the copied planets *)
Dataset_CopyMoons ==
  /\ pc = "ds_moons"
  /\ IF planet_ids # {}
     THEN txn' = [txn EXCEPT !.Moons = @ \cup SelectIn(source.Moons, "planetId", planet_ids)]
     ELSE UNCHANGED txn
  /\ pc' = "ds_stations"
  /\ UNCHANGED <<jumps, planet_ids>>
  /\ CopyFrame

(* Dataset_CopyNpcStations without the except clause. *)
Dataset_CopyNpcStations_Raises ==
  /\ pc = "ds_stations"
  /\ IF source.hasNpcStations
     THEN /\ txn' = [txn EXCEPT !.NpcStations =
                       @ \cup SelectIn(source.NpcStations, "solarSystemId", all_systems)]
          /\ pc' = "ds_commit"
          /\ UNCHANGED status
     ELSE /\ pc' = "failed"
          /\ status' = "1"
          /\ UNCHANGED txn
  /\ UNCHANGED <<jumps, planet_ids>>
  /\ UNCHANGED <<analysis, closure_pass, source, starColumns, disk, preexisting, script,
                 source_open, output_open, target_systems, gate_systems, nearby_systems,
                 all_systems, region_ids, constellation_ids>>

(* try: copy NpcStations; except OperationalError: the source has no such table *)
Dataset_CopyNpcStations ==
  /\ pc = "ds_stations"
  /\ IF source.hasNpcStations
     THEN txn' = [txn EXCEPT !.NpcStations =
                    @ \cup SelectIn(source.NpcStations, "solarSystemId", all_systems)]
     ELSE UNCHANGED txn
  /\ pc' = "ds_commit"
  /\ UNCHANGED <<jumps, planet_ids>>
  /\ CopyFrame

(* output.commit(); output.close(); source.close() *)
Dataset_Commit ==
  /\ pc = "ds_commit"
  /\ disk' = txn
  /\ output_open' = FALSE
  /\ source_open' = FALSE
  /\ pc' = "done"
  /\ status' = "0"
  /\ UNCHANGED <<analysis, closure_pass, source, starColumns, preexisting, script, locals, txn>>

(* The closure of lines 112-198 run again, on the system ids it wrote. *)
Dataset_Reclose ==
  /\ pc = "done"
  /\ script = "dataset"
  /\ closure_pass = 1
  /\ closure_pass' = 2
  /\ all_systems' = Column(disk.SolarSystems, "solarSystemId")
  /\ preexisting' = disk
  /\ source_open' = TRUE
  /\ status' = "running"
  /\ pc' = "ds_create"
  /\ UNCHANGED <<analysis, source, starColumns, disk, script, output_open, target_systems,
                 gate_systems, nearby_systems, region_ids, constellation_ids, jumps,
                 planet_ids, txn>>

Dataset_Next ==
  \/ Dataset_Open
  \/ Dataset_GetTargets
  \/ Dataset_Collect
  \/ Dataset_CreateOutput
  \/ Dataset_CopyRegions
  \/ Dataset_CopyConstellations
  \/ Dataset_CopySolarSystems
  \/ Dataset_CopyJumps
  \/ Dataset_CopyPlanets
  \/ Dataset_CopyMoons
  \/ Dataset_CopyNpcStations
  \/ Dataset_Commit
  \/ Dataset_Reclose

(***************************************************************************)
(* extract_route_fixture.py: extract_fixture_data(source_db_path,          *)
(* output_db_path, system_ids, system_names).  system_ids comes from the   *)
(* route corpus, not from the source, so it may hold ids of no source row. *)
(***************************************************************************)
(* Route_Open filtering Jumps on fromSystemId alone. *)
Route_Open_FromOnly ==
  /\ pc = "idle"
  /\ script' = "route"
  /\ source_open' = TRUE
  /\ \E system_ids \in SUBSET SystemIds :
       LET rows == SelectIn(source.SolarSystems, "solarSystemId", system_ids)
       IN  /\ all_systems' = system_ids
           /\ constellation_ids' = Column(rows, "constellationId")
           /\ region_ids' = Column(rows, "regionId")
           /\ jumps' = SelectIn(source.Jumps, "fromSystemId", system_ids)
  /\ pc' = "rt_create"
  /\ UNCHANGED <<analysis, closure_pass, source, starColumns, disk, preexisting, status, output_open,
                 target_systems, gate_systems, nearby_systems, planet_ids, txn>>

Route_Open ==
  /\ pc = "idle"
  /\ script' = "route"
  /\ source_open' = TRUE
  /\ \E system_ids \in SUBSET SystemIds :
       LET rows == SelectIn(source.SolarSystems, "solarSystemId", system_ids)
       IN  /\ all_systems' = system_ids
           /\ constellation_ids' = Column(rows, "constellationId")
           /\ region_ids' = Column(rows, "regionId")
           /\ jumps' = SelectIn(SelectIn(source.Jumps, "fromSystemId", system_ids),
                                "toSystemId", system_ids)
  /\ pc' = "rt_create"
  /\ UNCHANGED <<analysis, closure_pass, source, starColumns, disk, preexisting, status, output_open,
                 target_systems, gate_systems, nearby_systems, planet_ids, txn>>

(* unlink the old file, connect, create the six tables of the fixed schema *)
Route_CreateOutput ==
  /\ pc = "rt_create"
  /\ output_open' = TRUE
  /\ disk' = EmptyStore(FALSE)
  /\ txn' = EmptyStore(FALSE)
  /\ pc' = "rt_regions"
  /\ UNCHANGED <<analysis, closure_pass, source, starColumns, preexisting, script, status, source_open, locals>>

Route_CopyRegions ==
  /\ pc = "rt_regions"
  /\ txn' = [txn EXCEPT !.Regions = @ \cup SelectIn(source.Regions, "regionId", region_ids)]
  /\ pc' = "rt_constellations"
  /\ UNCHANGED <<jumps, planet_ids>>
  /\ CopyFrame

Route_CopyConstellations ==
  /\ pc = "rt_constellations"
  /\ txn' = [txn EXCEPT !.Constellations =
               @ \cup SelectIn(source.Constellations, "constellationId", constellation_ids)]
  /\ pc' = "rt_systems"
  /\ UNCHANGED <<jumps, planet_ids>>
  /\ CopyFrame

(* Route_CopySolarSystems copying the gate neighbours of the targets too. *)
Route_CopySolarSystems_WithNeighbours ==
  /\ pc = "rt_systems"
  /\ LET has_star_temperature == "star_temperature" \in starColumns
         has_star_luminosity == "star_luminosity" \in starColumns
         rows == SelectIn(source.SolarSystems, "solarSystemId",
                          all_systems \cup get_gate_connected_systems(source, all_systems))
         solar_systems ==
           IF has_star_temperature /\ has_star_luminosity
           THEN rows
           ELSE {[s EXCEPT !.star_temperature = "NULL", !.star_luminosity = "NULL"] :
                   s \in rows}
     IN  txn' = [txn EXCEPT !.SolarSystems = @ \cup solar_systems]
  /\ pc' = "rt_jumps"
  /\ UNCHANGED <<jumps, planet_ids>>
  /\ CopyFrame

(* PRAGMA table_info: the star columns are read only when the source has
   both; otherwise NULL is written for both *)
Route_CopySolarSystems ==
  /\ pc = "rt_systems"
  /\ LET has_star_temperature == "star_temperature" \in starColumns
         has_star_luminosity == "star_luminosity" \in starColumns
         rows == SelectIn(source.SolarSystems, "solarSystemId", all_systems)
         solar_systems ==
           IF has_star_temperature /\ has_star_luminosity
           THEN rows
           ELSE {[s EXCEPT !.star_temperature = "NULL", !.star_luminosity = "NULL"] :
                   s \in rows}
     IN  txn' = [txn EXCEPT !.SolarSystems = @ \cup solar_systems]
  /\ pc' = "rt_jumps"
  /\ UNCHANGED <<jumps, planet_ids>>
  /\ CopyFrame

Route_CopyJumps ==
  /\ pc = "rt_jumps"
  /\ txn' = [txn EXCEPT !.Jumps = @ \cup jumps]
  /\ pc' = "rt_planets"
  /\ UNCHANGED <<jumps, planet_ids>>
  /\ CopyFrame

(* Route_CopyPlanets without the solarSystemId filter. *)
Route_CopyPlanets_AllPlanets ==
  /\ pc = "rt_planets"
  /\ LET planets == source.Planets
     IN  /\ planet_ids' = Column(planets, "planetId")
         /\ txn' = [txn EXCEPT !.Planets = @ \cup planets]
  /\ pc' = "rt_moons"
  /\ UNCHANGED jumps
  /\ CopyFrame

(* Route_CopyPlanets committing what it has inserted so far. *)
Route_CopyPlanets_CommitsEarly ==
  /\ pc = "rt_planets"
  /\ LET planets == SelectIn(source.Planets, "solarSystemId", all_systems)
     IN  /\ planet_ids' = Column(planets, "planetId")
         /\ txn' = [txn EXCEPT !.Planets = @ \cup planets]
  /\ disk' = txn'
  /\ pc' = "rt_moons"
  /\ UNCHANGED jumps
  /\ UNCHANGED <<analysis, closure_pass, source, starColumns, preexisting, script, status,
                 source_open, output_open, target_systems, gate_systems, nearby_systems,
                 all_systems, region_ids, constellation_ids>>

Route_CopyPlanets ==
  /\ pc = "rt_planets"
  /\ LET planets == SelectIn(source.Planets, "solarSystemId", all_systems)
     IN  /\ planet_ids' = Column(planets, "planetId")
         /\ txn' = [txn EXCEPT !.Planets = @ \cup planets]
  /\ pc' = "rt_moons"
  /\ UNCHANGED jumps
  /\ CopyFrame

Route_CopyMoons ==
  /\ pc = "rt_moons"
  /\ IF planet_ids # {}
     THEN txn' = [txn EXCEPT !.Moons = @ \cup SelectIn(source.Moons, "planetId", planet_ids)]
     ELSE UNCHANGED txn
  /\ pc' = "rt_commit"
  /\ UNCHANGED <<jumps, planet_ids>>
  /\ CopyFrame

(* output.commit(); output.close(); source.close() *)
Route_Commit ==
  /\ pc = "rt_commit"
  /\ disk' = txn
  /\ output_open' = FALSE
  /\ source_open' = FALSE
  /\ pc' = "done"
  /\ status' = "0"
  /\ UNCHANGED <<analysis, closure_pass, source, starColumns, preexisting, script, locals, txn>>

(* extract_fixture_data called again with the system ids it wrote. *)
Route_Reclose ==
  /\ pc = "done"
  /\ script = "route"
  /\ closure_pass = 1
  /\ closure_pass' = 2
  /\ preexisting' = disk
  /\ source_open' = TRUE
  /\ status' = "running"
  /\ LET system_ids == Column(disk.SolarSystems, "solarSystemId")
         rows == SelectIn(source.SolarSystems, "solarSystemId", system_ids)
     IN  /\ all_systems' = system_ids
         /\ constellation_ids' = Column(rows, "constellationId")
         /\ region_ids' = Column(rows, "regionId")
         /\ jumps' = SelectIn(SelectIn(source.Jumps, "fromSystemId", system_ids),
                              "toSystemId", system_ids)
  /\ pc' = "rt_create"
  /\ UNCHANGED <<analysis, source, starColumns, disk, script, output_open,
                 target_systems, gate_systems, nearby_systems, planet_ids, txn>>

Route_Next ==
  \/ Route_Open
  \/ Route_CreateOutput
  \/ Route_CopyRegions
  \/ Route_CopyConstellations
  \/ Route_CopySolarSystems
  \/ Route_CopyJumps
  \/ Route_CopyPlanets
  \/ Route_CopyMoons
  \/ Route_Commit
  \/ Route_Reclose

Next == Dataset_Next \/ Route_Next

Spec == Init /\ [][Next]_vars

(***************************************************************************)
(* extract_route_fixture.py: analyze_sample_routes(csv_path, threshold).   *)
(* A row of the corpus is its routeId and its discoveredPath, the sequence *)
(* of the hops' system ids.                                                *)
(***************************************************************************)
CorpusIds == {1, 2}
Paths == UNION {[1..n -> CorpusIds] : n \in 0..MaxPathLen}
Corpora ==
  UNION {{[k \in 1..n |-> [routeId |-> k, discoveredPath |-> ps[k]]] : ps \in [1..n -> Paths]} :
           n \in 0..MaxRoutes}

InitAnalyze ==
  /\ corpus \in Corpora
  /\ threshold \in 0..MaxThreshold
  /\ next_row = 1
  /\ systems = {}
  /\ routes = <<>>
  /\ all_system_ids = <<>>
  /\ corridor_systems = {}
  /\ corridor_routes = <<>>
  /\ an_pc = "an_read"
  /\ source = NoStore
  /\ starColumns = AllStarColumns
  /\ preexisting = NoStore
  /\ disk = NoStore
  /\ script = "route"
  /\ pc = "main"
  /\ status = "running"
  /\ source_open = FALSE
  /\ output_open = FALSE
  /\ target_systems = {}
  /\ gate_systems = {}
  /\ nearby_systems = {}
  /\ all_systems = {}
  /\ region_ids = {}
  /\ constellation_ids = {}
  /\ jumps = {}
  /\ planet_ids = {}
  /\ txn = NoStore
  /\ returned = {}
  /\ closure_pass = 1
  /\ NoFixtureCommand
  /\ top_systems = <<>>
  /\ core_systems = {}
  /\ contained_routes = <<>>

Elements(seq) == {seq[k] : k \in 1..Len(seq)}

(* collections.Counter(ids): how often each id occurs in the list *)
Counter(ids) ==
  [id \in Elements(ids) |-> Cardinality({k \in 1..Len(ids) : ids[k] = id})]

(* CorridorSystems with the comparison off by one. *)
CorridorSystems_OffByOne(counts, t) == {sys_id \in DOMAIN counts : counts[sys_id] >= t - 1}

(* CorridorSystems keeping the ids that occur exactly t times. *)
CorridorSystems_Exactly(counts, t) == {sys_id \in DOMAIN counts : counts[sys_id] = t}

(* {sys_id for sys_id, count in counts.items() if count >= threshold} *)
CorridorSystems(counts, t) == {sys_id \in DOMAIN counts : counts[sys_id] >= t}

(* CorridorRoutes keeping a route when any of its hops is in the corridor. *)
CorridorRoutes_AnyHop(rs, corridor) ==
  SelectSeq(rs, LAMBDA r : \E k \in 1..Len(r.path_ids) : r.path_ids[k] \in corridor)

(* [r for r in routes if all(sid in corridor_systems for sid in r['path_ids'])] *)
CorridorRoutes(rs, corridor) ==
  SelectSeq(rs, LAMBDA r : \A k \in 1..Len(r.path_ids) : r.path_ids[k] \in corridor)

(* One turn of the loop over the rows of the corpus.  A row with an empty
   discoveredPath raises IndexError at path_ids[0]. *)
Analyze_ReadRow ==
  /\ an_pc = "an_read"
  /\ next_row <= Len(corpus)
  /\ LET row == corpus[next_row]
         path_ids == row.discoveredPath
     IN  /\ systems' = systems \cup Elements(path_ids)
         /\ all_system_ids' = all_system_ids \o path_ids
         /\ IF path_ids = <<>>
            THEN /\ an_pc' = "an_crashed"
                 /\ status' = "1"
                 /\ UNCHANGED <<routes, next_row>>
            ELSE /\ routes' = Append(routes, [route_id |-> row.routeId,
                                              start_id |-> path_ids[1],
                                              end_id |-> path_ids[Len(path_ids)],
                                              path_ids |-> path_ids])
                 /\ next_row' = next_row + 1
                 /\ UNCHANGED <<an_pc, status>>
  /\ UNCHANGED <<corpus, threshold, corridor_systems, corridor_routes, returned>>
  /\ UNCHANGED <<analyzer_frame, top_systems, core_systems, contained_routes>>

(* After the loop: count, select the corridor and the routes it contains,
   print, return.  The coverage printed divides by len(routes) and raises
   ZeroDivisionError for an empty corpus. *)
Analyze_Corridor ==
  /\ an_pc = "an_read"
  /\ next_row > Len(corpus)
  /\ LET counts == Counter(all_system_ids)
         corridor == CorridorSystems(counts, threshold)
     IN  IF Len(routes) = 0
         THEN /\ an_pc' = "an_crashed"
              /\ status' = "1"
              /\ UNCHANGED <<corridor_systems, corridor_routes, returned>>
         ELSE /\ corridor_systems' = corridor
              /\ corridor_routes' = CorridorRoutes(routes, corridor)
              /\ returned' = returned \cup
                    {[threshold |-> threshold, corridor_systems |-> corridor,
                      testable |-> Len(CorridorRoutes(routes, corridor)),
                      total |-> Len(routes)]}
              /\ an_pc' = "an_done"
              /\ UNCHANGED status
  /\ UNCHANGED <<corpus, threshold, next_row, systems, routes, all_system_ids>>
  /\ UNCHANGED <<analyzer_frame, top_systems, core_systems, contained_routes>>

(* The script is run again on the same SampleRoutes.csv with another
   --threshold. *)
Analyze_Rerun ==
  /\ an_pc = "an_done"
  /\ Cardinality(returned) < MaxRuns
  /\ \E t \in 0..MaxThreshold :
       /\ t \notin {r.threshold : r \in returned}
       /\ threshold' = t
  /\ next_row' = 1
  /\ systems' = {}
  /\ routes' = <<>>
  /\ all_system_ids' = <<>>
  /\ corridor_systems' = {}
  /\ corridor_routes' = <<>>
  /\ an_pc' = "an_read"
  /\ UNCHANGED <<corpus, returned, status>>
  /\ UNCHANGED <<analyzer_frame, top_systems, core_systems, contained_routes>>

NextAnalyze == Analyze_ReadRow \/ Analyze_Corridor \/ Analyze_Rerun

SpecAnalyze == InitAnalyze /\ [][NextAnalyze]_vars

(***************************************************************************)
(* Properties of the corridor analyzer.                                    *)
(***************************************************************************)
(* How often id occurs over all discoveredPath entries of the corpus. *)
Occurrences(id) ==
  Cardinality({h \in {<<k, i>> : k \in 1..Len(corpus), i \in 1..MaxPathLen} :
                 /\ h[2] <= Len(corpus[h[1]].discoveredPath)
                 /\ corpus[h[1]].discoveredPath[h[2]] = id})

OccurringIds == {id \in CorpusIds : Occurrences(id) > 0}

PathInCorridor(k) ==
  \A i \in 1..Len(corpus[k].discoveredPath) :
    corpus[k].discoveredPath[i] \in corridor_systems

(* C10: when the analyzer returns, the corridor is exactly the ids of the
   corpus that occur at least threshold times over all discoveredPath
   entries, and the covered routes are exactly the routes whose path ids
   are all in the corridor, each once. *)
C10_CorridorAndCoveredRoutes ==
  an_pc = "an_done" =>
    /\ corridor_systems = {id \in OccurringIds : Occurrences(id) >= threshold}
    /\ {corridor_routes[n].route_id : n \in 1..Len(corridor_routes)}
         = {k \in 1..Len(corpus) : PathInCorridor(k)}
    /\ \A m, n \in 1..Len(corridor_routes) :
         corridor_routes[m].route_id = corridor_routes[n].route_id => m = n

(* The analyzer returned a covered route and left out a route with one hop
   in the corridor and one outside. *)
C10_Witness ==
  /\ an_pc = "an_done"
  /\ corridor_routes # <<>>
  /\ \E k \in 1..Len(corpus) :
       /\ ~PathInCorridor(k)
       /\ \E i \in 1..Len(corpus[k].discoveredPath) :
            corpus[k].discoveredPath[i] \in corridor_systems

(* In how many routes of the corpus id is a hop. *)
RoutesThrough(id) ==
  Cardinality({k \in 1..Len(corpus) : id \in Elements(corpus[k].discoveredPath)})

CoveredIds == {corridor_routes[n].route_id : n \in 1..Len(corridor_routes)}

(* C11 as claimed: with threshold 4, a system that is a hop of exactly 3
   routes is outside the corridor, and no route through it is covered,
   however often the system occurs inside one path. *)
C11_ThreeRoutesExcluded ==
  (an_pc = "an_done" /\ threshold = 4) =>
    \A X \in CorpusIds :
      RoutesThrough(X) = 3 =>
        /\ X \notin corridor_systems
        /\ \A k \in 1..Len(corpus) :
             X \in Elements(corpus[k].discoveredPath) => k \notin CoveredIds

(* C11 amended: with threshold 4, a system that is a hop of exactly 3 routes
   and occurs once in each of them (3 occurrences over the corpus) is
   outside the corridor, and no route through it is covered. *)
C11_ThreeOccurrencesExcluded ==
  (an_pc = "an_done" /\ threshold = 4) =>
    \A X \in CorpusIds :
      (RoutesThrough(X) = 3 /\ Occurrences(X) = 3) =>
        /\ X \notin corridor_systems
        /\ \A k \in 1..Len(corpus) :
             X \in Elements(corpus[k].discoveredPath) => k \notin CoveredIds

(* Threshold 4; X is a hop of exactly 3 routes, once in each; the other hop
   of a route through X is in the corridor, and that route is not covered. *)
C11_Witness ==
  /\ an_pc = "an_done"
  /\ threshold = 4
  /\ \E X \in CorpusIds :
       /\ RoutesThrough(X) = 3
       /\ Occurrences(X) = 3
       /\ \E k \in 1..Len(corpus) :
            /\ X \in Elements(corpus[k].discoveredPath)
            /\ Elements(corpus[k].discoveredPath) \ {X} # {}
            /\ Elements(corpus[k].discoveredPath) \ {X} \subseteq corridor_systems
            /\ k \notin CoveredIds

(* C12: of two returns of the analyzer on the same non-empty corpus, the
   one with the lower threshold has a corridor that contains the other's
   and at least as many covered routes (the totals are equal, so at least
   the percentage). *)
C12_CorridorMonotonic ==
  \A r1, r2 \in returned :
    r1.threshold < r2.threshold =>
      /\ r2.corridor_systems \subseteq r1.corridor_systems
      /\ r1.testable >= r2.testable
      /\ r1.total = r2.total
      /\ 100 * r1.testable * r2.total >= 100 * r2.testable * r1.total

(* Two returns whose corridors and covered-route counts both differ. *)
C12_Witness ==
  \E r1, r2 \in returned :
    /\ r1.threshold < r2.threshold
    /\ r2.corridor_systems # r1.corridor_systems
    /\ r2.corridor_systems # {}
    /\ r1.testable > r2.testable
    /\ r2.testable > 0

(***************************************************************************)
(* analyze_sample_routes.py: main().  A row of the corpus also has the     *)
(* startSolarSystemId and endSolarSystemId columns; a hop has Id and Name. *)
(***************************************************************************)
(* The Name the corpus gives with a hop's Id. *)
HopName(id) == IF id = 2 THEN "Strym" ELSE "Nod"

(* The corpora, each route starting at its first hop and ending at its
   last; a route without hops names system 1. *)
HubCorpora ==
  {[k \in 1..Len(c) |->
      [routeId |-> c[k].routeId,
       startSolarSystemId |-> IF c[k].discoveredPath = <<>> THEN 1
                              ELSE c[k].discoveredPath[1],
       endSolarSystemId |-> IF c[k].discoveredPath = <<>> THEN 1
                            ELSE c[k].discoveredPath[Len(c[k].discoveredPath)],
       discoveredPath |-> c[k].discoveredPath]] : c \in Corpora}

NoHubReport ==
  /\ top_systems = <<>>
  /\ core_systems = {}
  /\ contained_routes = <<>>

InitHubs ==
  /\ corpus \in HubCorpora
  /\ threshold = 5
  /\ next_row = 1
  /\ systems = {}
  /\ routes = <<>>
  /\ all_system_ids = <<>>
  /\ corridor_systems = {}
  /\ corridor_routes = <<>>
  /\ an_pc = "hub_read"
  /\ returned = {}
  /\ NoHubReport
  /\ NoFixtureCommand
  /\ source = NoStore
  /\ starColumns = AllStarColumns
  /\ preexisting = NoStore
  /\ disk = NoStore
  /\ script = "analyze"
  /\ pc = "main"
  /\ status = "running"
  /\ source_open = FALSE
  /\ output_open = FALSE
  /\ target_systems = {}
  /\ gate_systems = {}
  /\ nearby_systems = {}
  /\ all_systems = {}
  /\ region_ids = {}
  /\ constellation_ids = {}
  /\ jumps = {}
  /\ planet_ids = {}
  /\ txn = NoStore
  /\ closure_pass = 1

(* The index at which id first occurs in ids: its place in the Counter. *)
FirstIndex(ids, id) ==
  CHOOSE k \in 1..Len(ids) : ids[k] = id /\ \A j \in 1..(k - 1) : ids[j] # id

(* Counter(ids).most_common(n): the n largest counts, largest first; equal
   counts in the order in which the ids were first counted *)
most_common(ids, n) ==
  LET counts == Counter(ids)
      before(a, b) ==
        \/ counts[a] > counts[b]
        \/ counts[a] = counts[b] /\ FirstIndex(ids, a) < FirstIndex(ids, b)
      rank(a) == 1 + Cardinality({b \in DOMAIN counts : before(b, a)})
      size == IF n < Cardinality(DOMAIN counts) THEN n ELSE Cardinality(DOMAIN counts)
  IN  [r \in 1..size |->
         LET id == CHOOSE a \in DOMAIN counts : rank(a) = r
         IN  <<id, counts[id]>>]

RECURSIVE Flatten(_)
Flatten(seqs) == IF seqs = <<>> THEN <<>> ELSE Head(seqs) \o Flatten(Tail(seqs))

(* One turn of the loop over the rows.  systems[start_id] raises KeyError
   when no hop read so far has that Id. *)
Hubs_ReadRow ==
  /\ an_pc = "hub_read"
  /\ next_row <= Len(corpus)
  /\ LET row == corpus[next_row]
         path == row.discoveredPath
         start_id == row.startSolarSystemId
         end_id == row.endSolarSystemId
     IN  /\ systems' = systems \cup Elements(path)
         /\ all_system_ids' = all_system_ids \o path
         /\ IF start_id \notin systems' \/ end_id \notin systems'
            THEN /\ an_pc' = "hub_crashed"
                 /\ status' = "1"
                 /\ UNCHANGED <<routes, next_row>>
            ELSE /\ routes' = Append(routes, [route_id |-> row.routeId,
                                              start_id |-> start_id,
                                              start_name |-> HopName(start_id),
                                              end_id |-> end_id,
                                              end_name |-> HopName(end_id),
                                              path_len |-> Len(path),
                                              path_ids |-> path])
                 /\ next_row' = next_row + 1
                 /\ UNCHANGED <<an_pc, status>>
  /\ UNCHANGED <<corpus, threshold, corridor_systems, corridor_routes, returned,
                 top_systems, core_systems, contained_routes>>
  /\ UNCHANGED analyzer_frame

(* After the loop: the top 30 systems, the routes inside the top 50, the
   routes that start or end at Strym, the systems that occur 5 times or
   more in them and the routes inside that corridor. *)
Hubs_Report ==
  /\ an_pc = "hub_read"
  /\ next_row > Len(corpus)
  /\ LET core == {entry[1] : entry \in Elements(most_common(all_system_ids, 50))}
         strym_routes ==
           SelectSeq(routes, LAMBDA r : r.end_name = "Strym" \/ r.start_name = "Strym")
         strym_system_ids ==
           Flatten([k \in 1..Len(strym_routes) |-> strym_routes[k].path_ids])
         corridor == CorridorSystems(Counter(strym_system_ids), 5)
     IN  /\ top_systems' = most_common(all_system_ids, 30)
         /\ core_systems' = core
         /\ contained_routes' = CorridorRoutes(routes, core)
         /\ corridor_systems' = corridor
         /\ corridor_routes' = CorridorRoutes(routes, corridor)
  /\ an_pc' = "hub_done"
  /\ UNCHANGED <<corpus, threshold, next_row, systems, routes, all_system_ids, returned,
                 status>>
  /\ UNCHANGED analyzer_frame

NextHubs == Hubs_ReadRow \/ Hubs_Report

SpecHubs == InitHubs /\ [][NextHubs]_vars

(* C18: in the reported list of most frequent systems, of two systems with
   equal occurrence counts the one with the lower id comes first. *)
C18_TiesByAscendingId ==
  an_pc = "hub_done" =>
    \A i, j \in 1..Len(top_systems) :
      (i < j /\ top_systems[i][2] = top_systems[j][2]) =>
        top_systems[i][1] < top_systems[j][1]

(***************************************************************************)
(* fixture_status.py: status, record, verify.                              *)
(*                                                                         *)
(* A file is its existence and its content.  The fixture is a sequence of  *)
(* bytes: byte 1 is the SQLite header (1: a database), byte 2 the number   *)
(* of SolarSystems rows, the other bytes content that no row count shows.  *)
(***************************************************************************)
FIXTURE_DB == "docs/fixtures/minimal_static_data.db"
TABLES == <<"Regions", "Constellations", "SolarSystems", "Jumps", "Planets", "Moons">>

Bytes == {0, 1}
FixtureFiles == {[exists |-> TRUE, bytes |-> b] : b \in [1..MaxFileLen -> Bytes]}
NoFile == [exists |-> FALSE, bytes |-> <<>>]

(* Lines of the release marker: key=value, or a line without "=". *)
MarkerLines ==
  {[eq |-> TRUE, key |-> "resolved", value |-> "e6c2"],
   [eq |-> TRUE, key |-> "resolved", value |-> "e6c3"],
   [eq |-> TRUE, key |-> "requested", value |-> "latest"],
   [eq |-> FALSE, key |-> "", value |-> ""]}
MarkerFiles ==
  {[exists |-> TRUE, lines |-> l] :
     l \in UNION {[1..n -> MarkerLines] : n \in 0..MaxMarkerLines}}
NoMarker == [exists |-> FALSE, lines |-> <<>>]

(* read_release_marker: the dict of the key=value lines, a later line
   replacing an earlier one with the same key; ok = FALSE: SystemExit *)
read_release_marker(marker) ==
  IF ~marker.exists
  THEN [ok |-> FALSE, error |-> "Release marker not found", data |-> <<>>]
  ELSE LET assigned == {i \in 1..Len(marker.lines) : marker.lines[i].eq}
           keys == {marker.lines[i].key : i \in assigned}
           lastOf(k) == CHOOSE i \in assigned :
                          /\ marker.lines[i].key = k
                          /\ \A j \in assigned : marker.lines[j].key = k => j <= i
           data == [k \in keys |-> marker.lines[lastOf(k)].value]
       IN  IF "resolved" \notin keys
           THEN [ok |-> FALSE, error |-> "Release marker missing 'resolved=' entry",
                 data |-> <<>>]
           ELSE [ok |-> TRUE, error |-> "", data |-> data]

RECURSIVE Digest(_, _)
Digest(bytes, n) == IF n = 0 THEN 1 ELSE 2 * Digest(bytes, n - 1) + bytes[n]

(* compute_sha256 reading the first byte only. *)
compute_sha256_FirstByte(bytes) == Digest(bytes, 1)

(* compute_sha256: the digest of all bytes of the file; different contents
   within the bound have different digests *)
compute_sha256(bytes) == Digest(bytes, Len(bytes))

(* sqlite3 opens the file as a database *)
IsDatabase(bytes) == Len(bytes) >= 2 /\ bytes[1] = 1

(* count_tables: SELECT COUNT( * ) of every table of TABLES *)
count_tables(bytes) ==
  [t \in {TABLES[i] : i \in 1..Len(TABLES)} |->
     IF t = "SolarSystems" THEN bytes[2] ELSE 0]

(* gather_metadata; ok = FALSE: SystemExit or sqlite3.DatabaseError *)
gather_metadata ==
  LET release == read_release_marker(release_marker)
  IN  IF ~fixture_db.exists
      THEN [ok |-> FALSE, error |-> "Fixture database not found", meta |-> <<>>]
      ELSE IF ~release.ok
      THEN [ok |-> FALSE, error |-> release.error, meta |-> <<>>]
      ELSE IF ~IsDatabase(fixture_db.bytes)
      THEN [ok |-> FALSE, error |-> "sqlite3.DatabaseError", meta |-> <<>>]
      ELSE [ok |-> TRUE, error |-> "",
            meta |-> [fixture |-> FIXTURE_DB,
                      release |-> release.data["resolved"],
                      sha256 |-> compute_sha256(fixture_db.bytes),
                      tables |-> count_tables(fixture_db.bytes)]]

(* json.dumps(meta, sort_keys=True): the members in key order, the tables
   object as its members in key order *)
SortedKeys == <<"fixture", "release", "sha256", "tables">>
SortedTables == <<"Constellations", "Jumps", "Moons", "Planets", "Regions", "SolarSystems">>
dumps(meta) ==
  [i \in 1..Len(SortedKeys) |->
     IF SortedKeys[i] = "tables"
     THEN [key |-> "tables", string |-> "", number |-> 0,
           object |-> [j \in 1..Len(SortedTables) |->
                         [key |-> SortedTables[j],
                          number |-> meta.tables[SortedTables[j]]]]]
     ELSE IF SortedKeys[i] = "sha256"
     THEN [key |-> "sha256", string |-> "", number |-> meta.sha256, object |-> <<>>]
     ELSE [key |-> SortedKeys[i], string |-> meta[SortedKeys[i]], number |-> 0,
           object |-> <<>>]]

(* json.loads(text); ok = FALSE: json.JSONDecodeError (an empty file) *)
loads(text) ==
  IF text = <<>>
  THEN [ok |-> FALSE, value |-> <<>>]
  ELSE LET member(k) == text[CHOOSE i \in 1..Len(text) : text[i].key = k]
           tables == member("tables").object
       IN  [ok |-> TRUE,
            value |-> [fixture |-> member("fixture").string,
                       release |-> member("release").string,
                       sha256 |-> member("sha256").number,
                       tables |-> [t \in {tables[j].key : j \in 1..Len(tables)} |->
                                     (tables[CHOOSE j \in 1..Len(tables) :
                                               tables[j].key = t]).number]]]

NoMetadata == [exists |-> FALSE, text |-> <<>>]

(* Manifests an earlier record may have left. *)
EarlierMetadata ==
  {[exists |-> TRUE, text |-> <<>>]}
    \cup {[exists |-> TRUE,
           text |-> dumps([fixture |-> FIXTURE_DB, release |-> r,
                           sha256 |-> compute_sha256(f.bytes),
                           tables |-> count_tables(f.bytes)])] :
            <<f, r>> \in {g \in FixtureFiles : IsDatabase(g.bytes)} \X {"e6c2", "e6c3"}}

NoBaseline == [recorded |-> FALSE, fixture |-> NoFile, marker |-> NoMarker]

Result(c, e, p) == [command |-> c, exit |-> e, printed |-> p]

(* What the fixture_status commands leave alone. *)
fixture_frame == <<source, starColumns, disk, preexisting, script, pc, status, source_open,
                   output_open, target_systems, gate_systems, nearby_systems,
                   all_systems, region_ids, constellation_ids, jumps, planet_ids,
                   txn, closure_pass, corpus, threshold, next_row, systems, routes,
                   all_system_ids, corridor_systems, corridor_routes, an_pc, returned,
                   top_systems, core_systems, contained_routes>>

(* cmd_status writing what it prints to METADATA_FILE as well. *)
cmd_status_Records ==
  /\ LET current == gather_metadata
     IN  IF current.ok
         THEN /\ last' = Result("status", 0, <<dumps(current.meta)>>)
              /\ metadata_file' = [exists |-> TRUE, text |-> dumps(current.meta)]
         ELSE /\ last' = Result("status", 1, <<>>)
              /\ UNCHANGED metadata_file
  /\ UNCHANGED <<fixture_db, release_marker, baseline>>
  /\ UNCHANGED fixture_frame

cmd_status ==
  /\ LET current == gather_metadata
     IN  last' = IF current.ok
                 THEN Result("status", 0, <<dumps(current.meta)>>)
                 ELSE Result("status", 1, <<>>)
  /\ UNCHANGED <<fixture_db, release_marker, metadata_file, baseline>>
  /\ UNCHANGED fixture_frame

cmd_record ==
  /\ LET current == gather_metadata
     IN  IF current.ok
         THEN /\ metadata_file' = [exists |-> TRUE, text |-> dumps(current.meta)]
              /\ baseline' = [recorded |-> TRUE, fixture |-> fixture_db,
                              marker |-> release_marker]
              /\ last' = Result("record", 0, <<>>)
         ELSE /\ last' = Result("record", 1, <<>>)
              /\ UNCHANGED <<metadata_file, baseline>>
  /\ UNCHANGED <<fixture_db, release_marker>>
  /\ UNCHANGED fixture_frame

(* cmd_verify comparing the hashes only. *)
cmd_verify_HashOnly ==
  /\ LET current == gather_metadata
         recorded == loads(metadata_file.text)
     IN  last' =
           IF ~metadata_file.exists \/ ~current.ok \/ ~recorded.ok
           THEN Result("verify", 1, <<>>)
           ELSE IF current.meta.sha256 # recorded.value.sha256
           THEN Result("verify", 1, <<metadata_file.text, dumps(current.meta)>>)
           ELSE Result("verify", 0, <<>>)
  /\ UNCHANGED <<fixture_db, release_marker, metadata_file, baseline>>
  /\ UNCHANGED fixture_frame

(* The printed list of a mismatch: the recorded manifest, then the current. *)
cmd_verify ==
  /\ LET current == gather_metadata
         recorded == loads(metadata_file.text)
     IN  last' =
           IF ~metadata_file.exists \/ ~current.ok \/ ~recorded.ok
           THEN Result("verify", 1, <<>>)
           ELSE IF current.meta # recorded.value
           THEN Result("verify", 1, <<dumps(recorded.value), dumps(current.meta)>>)
           ELSE Result("verify", 0, <<>>)
  /\ UNCHANGED <<fixture_db, release_marker, metadata_file, baseline>>
  /\ UNCHANGED fixture_frame

(* Outside the script: one byte of the fixture changes. *)
Fixture_ChangeByte ==
  /\ fixture_db.exists
  /\ \E i \in 1..Len(fixture_db.bytes) :
       fixture_db' = [fixture_db EXCEPT !.bytes[i] = 1 - @]
  /\ last' = Result("none", 0, <<>>)
  /\ UNCHANGED <<release_marker, metadata_file, baseline>>
  /\ UNCHANGED fixture_frame

(* Outside the script: the fixture is deleted, or written where none was. *)
Fixture_Replace ==
  /\ \/ fixture_db.exists /\ fixture_db' = NoFile
     \/ ~fixture_db.exists /\ fixture_db' \in FixtureFiles
  /\ last' = Result("none", 0, <<>>)
  /\ UNCHANGED <<release_marker, metadata_file, baseline>>
  /\ UNCHANGED fixture_frame

(* Outside the script: the release marker is rewritten or deleted. *)
Marker_Replace ==
  /\ release_marker' \in (MarkerFiles \cup {NoMarker}) \ {release_marker}
  /\ last' = Result("none", 0, <<>>)
  /\ UNCHANGED <<fixture_db, metadata_file, baseline>>
  /\ UNCHANGED fixture_frame

InitStatus ==
  /\ fixture_db \in FixtureFiles \cup {NoFile}
  /\ release_marker \in MarkerFiles \cup {NoMarker}
  /\ metadata_file \in EarlierMetadata \cup {NoMetadata}
  /\ last = Result("none", 0, <<>>)
  /\ baseline = NoBaseline
  /\ source = NoStore
  /\ starColumns = AllStarColumns
  /\ preexisting = NoStore
  /\ disk = NoStore
  /\ script = "none"
  /\ pc = "idle"
  /\ status = "running"
  /\ source_open = FALSE
  /\ output_open = FALSE
  /\ target_systems = {}
  /\ gate_systems = {}
  /\ nearby_systems = {}
  /\ all_systems = {}
  /\ region_ids = {}
  /\ constellation_ids = {}
  /\ jumps = {}
  /\ planet_ids = {}
  /\ txn = NoStore
  /\ closure_pass = 1
  /\ corpus = <<>>
  /\ threshold = 4
  /\ next_row = 1
  /\ systems = {}
  /\ routes = <<>>
  /\ all_system_ids = <<>>
  /\ corridor_systems = {}
  /\ corridor_routes = <<>>
  /\ an_pc = "an_idle"
  /\ returned = {}
  /\ top_systems = <<>>
  /\ core_systems = {}
  /\ contained_routes = <<>>

NextStatus ==
  \/ cmd_status
  \/ cmd_record
  \/ cmd_verify
  \/ Fixture_ChangeByte
  \/ Fixture_Replace
  \/ Marker_Replace

SpecStatus == InitStatus /\ [][NextStatus]_vars

(***************************************************************************)
(* Properties of fixture_status.py.                                        *)
(***************************************************************************)
(* C13: a verify that runs while the fixture and the release marker are as
   they were at the last successful record passes, and a verify that runs
   while the content of the fixture differs from what it was at the last
   successful record fails; whatever commands ran before. *)
C13_RecordVerifyRoundTrip ==
  (last.command = "verify" /\ baseline.recorded) =>
    /\ (fixture_db = baseline.fixture /\ release_marker = baseline.marker) => last.exit = 0
    /\ fixture_db # baseline.fixture => last.exit # 0

(* verify failed on a fixture that differs from the recorded one in a byte
   that no row count shows, the release marker being as recorded. *)
C13_Witness ==
  /\ last.command = "verify"
  /\ last.exit # 0
  /\ baseline.recorded
  /\ fixture_db.exists
  /\ release_marker = baseline.marker
  /\ IsDatabase(fixture_db.bytes)
  /\ fixture_db.bytes[2] = baseline.fixture.bytes[2]
  /\ Cardinality({i \in 1..MaxFileLen : fixture_db.bytes[i] # baseline.fixture.bytes[i]}) = 1

(* The manifest of the files as they are, where there is one. *)
Resolved ==
  /\ release_marker.exists
  /\ \E i \in 1..Len(release_marker.lines) :
       release_marker.lines[i].eq /\ release_marker.lines[i].key = "resolved"

Recomputable == fixture_db.exists /\ Resolved /\ IsDatabase(fixture_db.bytes)

Matches ==
  /\ metadata_file.exists
  /\ Recomputable
  /\ metadata_file.text = dumps(gather_metadata.meta)

(* C14: verify ends with status 0 exactly when the baseline file exists,
   the fixture exists and the manifest recomputed from the files equals the
   recorded one; without a baseline file, without a fixture and on a
   mismatch it ends with a non-zero status, and on a mismatch it prints the
   recorded and the current manifest. *)
C14_VerifySemantics ==
  last.command = "verify" =>
    /\ last.exit = 0 <=> Matches
    /\ ~metadata_file.exists => last.exit # 0
    /\ ~fixture_db.exists => last.exit # 0
    /\ (metadata_file.exists /\ Recomputable /\ metadata_file.text # <<>> /\ ~Matches) =>
         /\ last.exit # 0
         /\ last.printed = <<metadata_file.text, dumps(gather_metadata.meta)>>

(* verify reported a mismatch in the release alone: hash and counts agree. *)
C14_Witness ==
  /\ last.command = "verify"
  /\ last.exit # 0
  /\ Len(last.printed) = 2
  /\ last.printed[1][3] = last.printed[2][3]
  /\ last.printed[1][4] = last.printed[2][4]

(* The manifest of a fixture and a release marker that yield one. *)
FingerprintOf(fixture, marker) ==
  [fixture |-> FIXTURE_DB,
   release |-> read_release_marker(marker).data["resolved"],
   sha256 |-> compute_sha256(fixture.bytes),
   tables |-> count_tables(fixture.bytes)]

(* No record has succeeded, or METADATA_FILE holds the fingerprint of the
   files as they were at the most recent successful record. *)
ManifestIsLastRecord ==
  baseline.recorded =>
    /\ metadata_file.exists
    /\ metadata_file.text = dumps(FingerprintOf(baseline.fixture, baseline.marker))

(* What a step may change of the three files, by the command it ran. *)
FilesChangedOnlyByRecord ==
  /\ last'.command \in {"status", "verify"} =>
       UNCHANGED <<fixture_db, release_marker, metadata_file>>
  /\ last'.command = "record" =>
       /\ UNCHANGED <<fixture_db, release_marker>>
       /\ (last'.exit # 0) => UNCHANGED metadata_file
       /\ (last'.exit = 0) =>
            /\ metadata_file'.exists
            /\ metadata_file'.text = dumps(FingerprintOf(fixture_db, release_marker))
  /\ (metadata_file' # metadata_file) =>
       (last'.command = "record" /\ last'.exit = 0)

(* C21: once a record has succeeded, METADATA_FILE holds the fingerprint of
   the files as they were at the most recent successful record (every step
   that touches METADATA_FILE or the last successful record ends so); a step of
   status or verify, passing or failing, changes none of the three files; a
   step of record changes neither the fixture nor the release marker, and
   METADATA_FILE only when it succeeds; no other step changes
   METADATA_FILE, so it stays absent until a record succeeds. *)
C21_StatusVerifyChangeNothing ==
  [][/\ FilesChangedOnlyByRecord
     /\ UNCHANGED <<metadata_file, baseline>> \/ ManifestIsLastRecord']_vars

(* A verify failed on a fixture changed since the record, and the manifest
   is still the fingerprint that the record computed. *)
C21_Witness ==
  /\ last.command = "verify"
  /\ last.exit # 0
  /\ baseline.recorded
  /\ fixture_db # baseline.fixture
  /\ fixture_db.exists
  /\ metadata_file.text = dumps(FingerprintOf(baseline.fixture, baseline.marker))

(***************************************************************************)
(* Properties of a completed extraction run.                               *)
(***************************************************************************)
Completed == pc = "done"
OutSystemIds == Column(disk.SolarSystems, "solarSystemId")
OutPlanetIds == Column(disk.Planets, "planetId")
OutRegionIds == Column(disk.Regions, "regionId")
OutConstellationIds == Column(disk.Constellations, "constellationId")
SourceSystemIds == Column(source.SolarSystems, "solarSystemId")

(* C1: after a completed run of either script, every Planet row of the
   output store has the solarSystemId of a SolarSystems row of the output. *)
C1_PlanetsReferenceOutputSystems ==
  Completed => \A p \in disk.Planets : p.solarSystemId \in OutSystemIds

(* A completed run that copied some planets and left others out. *)
C1_Witness ==
  /\ Completed
  /\ disk.Planets # {}
  /\ source.Planets \ disk.Planets # {}

(* C2: after a completed run, both endpoints of every Jump row of the output
   are ids of SolarSystems rows of the output, not merely target ids. *)
C2_JumpEndpointsInOutput ==
  Completed =>
    \A j \in disk.Jumps : j.fromSystemId \in OutSystemIds /\ j.toSystemId \in OutSystemIds

(* A completed run that wrote a jump although its target set holds an id
   of no output system. *)
C2_Witness ==
  /\ Completed
  /\ disk.Jumps # {}
  /\ all_systems \ OutSystemIds # {}

(* C3: an edge of the source Jumps table is in the output Jumps table iff
   both its endpoints are in the target system-ID set; the output holds no
   other edge. *)
C3_JumpIffBothEndpointsTargeted ==
  Completed =>
    /\ disk.Jumps \subseteq source.Jumps
    /\ \A e \in source.Jumps :
         e \in disk.Jumps <=> (e.fromSystemId \in all_systems /\ e.toSystemId \in all_systems)

(* A completed run that wrote one edge and dropped an edge with exactly one
   endpoint in the target set. *)
C3_Witness ==
  /\ Completed
  /\ disk.Jumps # {}
  /\ \E e \in source.Jumps :
       (e.fromSystemId \in all_systems) # (e.toSystemId \in all_systems)

(* C4: after a completed run, every SolarSystems row of the output has the
   regionId of an output Regions row and the constellationId of an output
   Constellations row. *)
C4_SystemsReferenceOutputParents ==
  Completed =>
    \A s \in disk.SolarSystems :
      s.regionId \in OutRegionIds /\ s.constellationId \in OutConstellationIds

(* A completed run that wrote systems and left a region and a constellation
   of the source out. *)
C4_Witness ==
  /\ Completed
  /\ disk.SolarSystems # {}
  /\ source.Regions \ disk.Regions # {}
  /\ source.Constellations \ disk.Constellations # {}

(* C5: after a completed run, every Constellations row of the output has the
   regionId of an output Regions row. *)
C5_ConstellationsReferenceOutputRegions ==
  Completed => \A c \in disk.Constellations : c.regionId \in OutRegionIds

(* C6: after a completed run, every Moon row of the output has the planetId
   of an output Planet row; the moons written are exactly the source moons of
   the copied planets, and none when no planet was copied. *)
C6_MoonsThroughCopiedPlanets ==
  Completed =>
    /\ \A m \in disk.Moons : m.planetId \in OutPlanetIds
    /\ disk.Moons = SelectIn(source.Moons, "planetId", planet_ids)
    /\ planet_ids = OutPlanetIds
    /\ disk.Planets = {} => disk.Moons = {}

(* A completed run that copied some moons and left others out. *)
C6_Witness ==
  /\ Completed
  /\ disk.Moons # {}
  /\ source.Moons \ disk.Moons # {}

(***************************************************************************)
(* Properties of the seed-based script.                                    *)
(***************************************************************************)
Seeds == Column(target_systems, "id")
Collected == script = "dataset" /\ pc \notin {"ds_targets", "ds_collect", "failed"}

(* The systems one gate away from a system of ids, in either direction. *)
OneHop(ids) ==
  {x \in SystemIds :
     \E j \in source.Jumps :
       \/ j.fromSystemId \in ids /\ j.toSystemId = x
       \/ j.toSystemId \in ids /\ j.fromSystemId = x}

(* C7: the gate-adjacency resolver returns exactly the seed ids, every
   toSystemId of an edge from a seed and every fromSystemId of an edge to a
   seed; a system two or more hops from every seed is not in the result. *)
C7_GateAdjacencyIsSingleHop ==
  Collected =>
    /\ gate_systems = Seeds \cup OneHop(Seeds)
    /\ \A x \in OneHop(OneHop(Seeds)) \ (Seeds \cup OneHop(Seeds)) : x \notin gate_systems

(* The resolver has run on a source where a system is two hops from a seed
   and not one hop from any. *)
C7_Witness ==
  /\ Collected
  /\ OneHop(Seeds) \ Seeds # {}
  /\ OneHop(OneHop(Seeds)) \ (Seeds \cup OneHop(Seeds)) # {}

IdNamed(n) == (CHOOSE s \in source.SolarSystems : s.name = n).solarSystemId

(* The systems within 80 light-years of Brana. *)
NearBrana ==
  LET brana == CHOOSE s \in source.SolarSystems : s.name = "Brana"
  IN  {s.solarSystemId :
         s \in {r \in source.SolarSystems :
                  DistanceSq(r.pos, brana.pos) <= (80 * LIGHT_YEAR_METERS) * (80 * LIGHT_YEAR_METERS)}}

(* C8: the seed-based extraction writes exactly Nod, Brana, the one-hop
   gate neighbours of Nod and of Brana and the systems within 80 light-years
   of Brana; no other system and no neighbour of another system. *)
C8_OutputIsNodBranaNeighboursAndNearby ==
  (Completed /\ script = "dataset") =>
    OutSystemIds =
      {IdNamed("Nod"), IdNamed("Brana")}
        \cup OneHop({IdNamed("Nod"), IdNamed("Brana")})
        \cup NearBrana

SeedsResolvable == RequiredNames \subseteq Column(source.SolarSystems, "name")

(* C9: when Nod or Brana is not in the source, the seed-based extraction
   ends with exit status 1 and never gets past seed resolution: no output
   connection is opened, nothing is written and the store at the output
   path stays as it was before the run. *)
C9_UnresolvedSeedFailsBeforeOutput ==
  (script = "dataset" /\ ~SeedsResolvable) =>
    /\ pc \in {"ds_targets", "failed"}
    /\ pc = "failed" => status = "1"
    /\ pc = "ds_targets" => status = "running"
    /\ disk = preexisting
    /\ ~output_open
    /\ txn = NoStore

(* A run failed on an unresolved seed with an earlier store at the output
   path, which is still there. *)
C9_Witness ==
  /\ script = "dataset"
  /\ ~SeedsResolvable
  /\ pc = "failed"
  /\ preexisting = StaleStore
  /\ disk = StaleStore
(* The six core tables of a store. *)
CoreTables(db) ==
  <<db.Regions, db.Constellations, db.SolarSystems, db.Jumps, db.Planets, db.Moons>>

(* C15: the closure of the system ids that a closure wrote writes the same
   regions, constellations, systems, jumps, planets and moons. *)
C15_ClosureIdempotent ==
  (Completed /\ closure_pass = 2) => CoreTables(disk) = CoreTables(preexisting)

(* A second closure completed over an output with rows in all six tables. *)
C15_Witness ==
  /\ Completed
  /\ closure_pass = 2
  /\ script = "route"
  /\ \A i \in 1..6 : CoreTables(disk)[i] # {}

Ended == pc \in {"done", "failed"}

(* C16: a store that was at the output path is removed before the new one
   is created, a completed run leaves the committed new store, whose rows
   all come from the source, and a run that ends otherwise leaves the
   store that was there. *)
C16_OverwriteReplacesStore ==
  /\ output_open => CoreTables(disk) = CoreTables(EmptyStore(FALSE))
  /\ Completed =>
       /\ disk.exists
       /\ disk = txn
       /\ disk.Regions \subseteq source.Regions
       /\ disk.Constellations \subseteq source.Constellations
       /\ OutSystemIds \subseteq Column(source.SolarSystems, "solarSystemId")
       /\ disk.Jumps \subseteq source.Jumps
       /\ disk.Planets \subseteq source.Planets
       /\ disk.Moons \subseteq source.Moons
  /\ (Ended /\ ~Completed) => disk = preexisting

(* A completed first run over an earlier fixture: none of its rows is left. *)
C16_Witness ==
  /\ Completed
  /\ closure_pass = 1
  /\ preexisting = StaleStore
  /\ disk.SolarSystems # {}
  /\ \A i \in 1..6 : CoreTables(disk)[i] \cap CoreTables(StaleStore)[i] = {}

(* C17: when a run has ended, by completion or by exit on a seed that does
   not resolve, the source connection and the output connection are
   closed. *)
C17_ConnectionsReleased ==
  Ended => (~source_open /\ ~output_open)

WriteOrder == <<"Regions", "Constellations", "SolarSystems", "Jumps", "Planets", "Moons">>

(* C19: through an open output connection, a table receives no row once a
   table later in the order Regions, Constellations, SolarSystems, Jumps,
   Planets, Moons has rows or receives rows, and the step that commits
   writes no row and closes the connection. *)
C19_TableWriteOrder ==
  [][output_open =>
       /\ \A i, j \in 1..Len(WriteOrder) :
            (i < j /\ (txn[WriteOrder[j]] # {} \/ txn'[WriteOrder[j]] # txn[WriteOrder[j]]))
              => txn'[WriteOrder[i]] = txn[WriteOrder[i]]
       /\ disk' # disk => (txn' = txn /\ ~output_open')]_vars

(* A completed seed-based run that wrote rows to all six tables. *)
C19_Witness ==
  /\ Completed
  /\ script = "dataset"
  /\ closure_pass = 1
  /\ \A i \in 1..Len(WriteOrder) : disk[WriteOrder[i]] # {}

(* C20: a seed-based run on a source without NpcStations fails only when a
   seed does not resolve, and when it completes it has committed the six
   core tables and no NpcStations; a corridor-based run never fails, and
   when it completes every output system has NULL in each star column the
   source lacks.  A run that has not ended can take a step. *)
C20_OptionalAbsenceIsNoFailure ==
  /\ (script = "dataset" /\ ~source.hasNpcStations /\ SeedsResolvable) =>
       (pc # "failed" /\ status # "1")
  /\ (script = "dataset" /\ ~source.hasNpcStations /\ Completed) =>
       /\ disk.exists
       /\ CoreTables(disk) = CoreTables(txn)
       /\ {"Nod", "Brana"} \subseteq Column(disk.SolarSystems, "name")
       /\ ~disk.hasNpcStations
  /\ script = "route" => (pc # "failed" /\ status # "1")
  /\ (script = "route" /\ Completed) =>
       \A col \in AllStarColumns \ starColumns :
         \A s \in disk.SolarSystems : s[col] = "NULL"
  /\ (script # "none" /\ ~Ended) => ENABLED Next

(* A corridor-based run completed on a source that has star_temperature
   but not star_luminosity, and wrote systems. *)
C20_Witness ==
  /\ Completed
  /\ script = "route"
  /\ starColumns = {"star_temperature"}
  /\ disk.SolarSystems # {}

=============================================================================
